---------------------------- MODULE Spec2Model ----------------------------
(***************************************************************************)
(* Assignment submission and auto-grading subsystem of the learning        *)
(* management backend (src/routes/assignments.js with the Assignment,      *)
(* QuizQuestion and Submission schemas).                                   *)
(*                                                                         *)
(* Representation.                                                         *)
(*  - A JavaScript string that the grader processes is a sequence of       *)
(*    one-character strings, so that toLowerCase() and trim() are          *)
(*    computed.  `answer?.answer || ''` makes an absent answer the empty   *)
(*    string, which is the empty sequence here.                            *)
(*  - A JavaScript number is an exact rational [n, d] in lowest terms;     *)
(*    NoNum (d = 0) is null/undefined.                                     *)
(*  - A Date is a natural number read from the clock `now`; 0 is unset.    *)
(*  - The collections are sequences in insertion order; a document's _id   *)
(*    is its position.                                                     *)
(***************************************************************************)
EXTENDS Integers, Sequences, FiniteSets, TLC

VARIABLES
    assignments,    \* Assignment collection: sequence of documents, id = position
    submissions,    \* Submission collection, in insertion order
    attempts,       \* history: per submission, the payload of every accepted submit
    now,            \* the clock new Date() reads
    res,            \* the last handler that ended: route, caller, status answered,
                    \* and the uploads it saw rejected (each is logged)
    hasCloudinary,  \* config/cloudinary.js: whether uploads go to Cloudinary
    inflight,       \* submit requests suspended at an await (interleaved runs)
    gIn,            \* argument of a direct call of autoGradeQuiz
    gOut,           \* its result
    stats           \* data of the last statistics response

vars ==
    <<assignments, submissions, attempts, now, res, hasCloudinary, inflight, gIn, gOut,
      stats>>

-----------------------------------------------------------------------------
(* Bounds of the model *)

\* number of writes to stored documents (submissions, assignment updates) in one behaviour
MaxClock == 3
\* longest list of enumeration answers (correct or submitted) the grader is called on
MaxEnum == 3
\* requests that may be suspended at the same time
MaxInflight == 2
\* the longest answer list handed to the grader
MaxAnswers == 3
\* the most submissions an assignment has when its statistics are read
MaxSubs == 5

-----------------------------------------------------------------------------
(* Numbers *)

NoNum == [n |-> 0, d |-> 0]

RECURSIVE Gcd(_, _)
Gcd(a, b) == IF b = 0 THEN a ELSE Gcd(b, a % b)

Abs(x) == IF x < 0 THEN 0 - x ELSE x

Rat(n, d) ==
    LET g == Gcd(Abs(n), d)
    IN  [n |-> n \div g, d |-> d \div g]

Num(k) == [n |-> k, d |-> 1]

RatAdd(x, y) == Rat(x.n * y.d + y.n * x.d, x.d * y.d)

RatLe(x, y) == x.n * y.d <= y.n * x.d

IsNum(x) == x.d # 0

\* JavaScript `x || k` on a number: 0, null and undefined are falsy
OrNum(x, k) == IF IsNum(x) /\ x.n # 0 THEN x ELSE k

RECURSIVE SumPoints(_)
SumPoints(s) ==
    IF s = <<>> THEN Num(0)
    ELSE RatAdd(OrNum(Head(s).points, Num(0)), SumPoints(Tail(s)))

\* a JSON string value; a number of a request body is a rational, as above
Str(s) == [str |-> s]

IsStr(v) == "str" \in DOMAIN v

\* JavaScript `v || k`: 0, null, undefined and '' are falsy
OrJs(v, k) ==
    IF IsStr(v) THEN (IF v.str = <<>> THEN k ELSE v)
    ELSE OrNum(v, k)

DigitChars == <<"0", "1", "2", "3", "4", "5", "6", "7", "8", "9">>

\* String(k) of a natural number
RECURSIVE DigitsOf(_)
DigitsOf(k) ==
    IF k < Len(DigitChars) THEN <<DigitChars[k + 1]>>
    ELSE Append(DigitsOf(k \div Len(DigitChars)), DigitChars[(k % Len(DigitChars)) + 1])

\* Number(s) of a string of decimal digits
RECURSIVE ParseDigits(_)
ParseDigits(s) ==
    IF s = <<>> THEN 0
    ELSE ParseDigits(SubSeq(s, 1, Len(s) - 1)) * Len(DigitChars)
            + ((CHOOSE k \in 1..Len(DigitChars) : DigitChars[k] = s[Len(s)]) - 1)

\* String(v) when + concatenates; the numbers met here are naturals
JsToString(v) == IF IsStr(v) THEN v.str ELSE DigitsOf(v.n)

\* JavaScript x + y: addition of two numbers, concatenation when either is a string
JsAdd(x, y) ==
    IF IsStr(x) \/ IsStr(y) THEN Str(JsToString(x) \o JsToString(y)) ELSE RatAdd(x, y)

\* the cast of a value to a schema path of type Number
CastNumber(v) == IF IsStr(v) THEN Num(ParseDigits(v.str)) ELSE v

-----------------------------------------------------------------------------
(* Strings *)

ToLowerChar(c) ==
    CASE c = "A" -> "a"
      [] c = "B" -> "b"
      [] c = "C" -> "c"
      [] OTHER -> c

ToLowerCase(s) == [i \in 1..Len(s) |-> ToLowerChar(s[i])]

RECURSIVE TrimStart(_)
TrimStart(s) ==
    IF s # <<>> /\ Head(s) = " " THEN TrimStart(Tail(s)) ELSE s

RECURSIVE TrimEnd(_)
TrimEnd(s) ==
    IF s # <<>> /\ s[Len(s)] = " " THEN TrimEnd(SubSeq(s, 1, Len(s) - 1)) ELSE s

Trim(s) == TrimEnd(TrimStart(s))

\* s.toLowerCase().trim()
Normalize(s) == Trim(ToLowerCase(s))

-----------------------------------------------------------------------------
(* Sequences *)

Range(s) == {s[i] : i \in 1..Len(s)}

SeqsUpTo(S, k) == UNION {[1..m -> S] : m \in 0..k}

\* Array.prototype.find: the first element satisfying Test, or Default
FindFirst(s, Test(_), Default) ==
    IF \E i \in 1..Len(s) : Test(s[i])
    THEN s[CHOOSE i \in 1..Len(s) : Test(s[i]) /\ \A j \in 1..(i - 1) : ~Test(s[j])]
    ELSE Default

\* Array.prototype.filter(...).length
CountIf(s, Test(_)) == Cardinality({i \in 1..Len(s) : Test(s[i])})

-----------------------------------------------------------------------------
(* Auto-Grader *)

\* an absent questionId (undefined)
NoId == <<>>

\* what `answer?.answer || ''` and `answer?.answers || []` read when find() found nothing
NoAnswer ==
    [questionId |-> NoId, type |-> "", fileIndex |-> 0, answer |-> <<>>, answers |-> <<>>]

\* answers.find(a => a.questionId && a.questionId.toString() === question._id.toString())
FindAnswer(answers, question) ==
    LET Matches(a) == a.questionId # NoId /\ a.questionId = question.id
    IN  FindFirst(answers, Matches, NoAnswer)

\* question.points || 1
MaxPoints(question) == OrNum(question.points, Num(1))

\* a comparison that trims but keeps the case
GradeExactCaseSensitive(question, answer) ==
    LET isCorrect == Trim(answer.answer) = Trim(question.correctAnswer)
    IN  [isCorrect |-> IF isCorrect THEN "true" ELSE "false",
         points    |-> IF isCorrect THEN MaxPoints(question) ELSE Num(0)]

GradeExact(question, answer) ==
    LET isCorrect == Normalize(answer.answer) = Normalize(question.correctAnswer)
    IN  [isCorrect |-> IF isCorrect THEN "true" ELSE "false",
         points    |-> IF isCorrect THEN MaxPoints(question) ELSE Num(0)]

\* a grader that counts each distinct student answer once
GradeEnumerationDistinct(question, answer) ==
    LET correctAnswers == [i \in 1..Len(question.correctAnswers) |->
                              Normalize(question.correctAnswers[i])]
        studentAnswers == [i \in 1..Len(answer.answers) |-> Normalize(answer.answers[i])]
        correctCount   == Cardinality(Range(studentAnswers) \cap Range(correctAnswers))
        totalCorrect   == Len(correctAnswers)
        mp             == MaxPoints(question)
    IN  IF totalCorrect > 0
        THEN [isCorrect |-> IF correctCount = totalCorrect /\ Len(studentAnswers) = totalCorrect
                            THEN "true" ELSE "false",
              points    |-> Rat(correctCount * mp.n, totalCorrect * mp.d)]
        ELSE [isCorrect |-> "false", points |-> Num(0)]

GradeEnumeration(question, answer) ==
    LET correctAnswers == [i \in 1..Len(question.correctAnswers) |->
                              Normalize(question.correctAnswers[i])]
        studentAnswers == [i \in 1..Len(answer.answers) |-> Normalize(answer.answers[i])]
        InCorrect(sa)  == sa \in Range(correctAnswers)
        correctCount   == CountIf(studentAnswers, InCorrect)
        totalCorrect   == Len(correctAnswers)
        mp             == MaxPoints(question)
    IN  IF totalCorrect > 0
        THEN [isCorrect |-> IF correctCount = totalCorrect /\ Len(studentAnswers) = totalCorrect
                            THEN "true" ELSE "false",
              points    |-> Rat(correctCount * mp.n, totalCorrect * mp.d)]
        ELSE [isCorrect |-> "false", points |-> Num(0)]

\* a callback that grades every kind of question but enumeration by comparison
GradeQuestionComparesEssays(question, answers) ==
    LET answer == FindAnswer(answers, question)
        verdict ==
            CASE question.type = "enumeration" -> GradeEnumeration(question, answer)
              [] OTHER -> GradeExact(question, answer)
    IN  [questionId |-> question.id,
         type       |-> question.type,
         answer     |-> answer.answer,
         answers    |-> answer.answers,
         isCorrect  |-> verdict.isCorrect,
         points     |-> verdict.points,
         maxPoints  |-> MaxPoints(question)]

\* the body of the forEach callback: the verdict on one question
GradeQuestion(question, answers) ==
    LET answer == FindAnswer(answers, question)
        verdict ==
            CASE question.type \in {"essay", "file-upload"} ->
                    [isCorrect |-> "null", points |-> Num(0)]
              [] question.type \in {"multiple-choice", "identification"} ->
                    GradeExact(question, answer)
              [] question.type = "enumeration" ->
                    GradeEnumeration(question, answer)
              [] OTHER -> [isCorrect |-> "false", points |-> Num(0)]
    IN  [questionId |-> question.id,
         type       |-> question.type,
         answer     |-> answer.answer,
         answers    |-> answer.answers,
         isCorrect  |-> verdict.isCorrect,
         points     |-> verdict.points,
         maxPoints  |-> MaxPoints(question)]

\* a grading loop that leaves the questions graded by hand out of totalPoints
RECURSIVE GradeLoopSkipsUngraded(_, _, _)
GradeLoopSkipsUngraded(questions, answers, acc) ==
    IF questions = <<>> THEN acc
    ELSE LET g == GradeQuestion(Head(questions), answers)
         IN  GradeLoopSkipsUngraded(Tail(questions), answers,
                 [totalScore    |-> RatAdd(acc.totalScore, g.points),
                  totalPoints   |-> IF g.isCorrect = "null" THEN acc.totalPoints
                                    ELSE RatAdd(acc.totalPoints, MaxPoints(Head(questions))),
                  gradedAnswers |-> Append(acc.gradedAnswers, g)])

RECURSIVE GradeLoop(_, _, _)
GradeLoop(questions, answers, acc) ==
    IF questions = <<>> THEN acc
    ELSE LET g == GradeQuestion(Head(questions), answers)
         IN  GradeLoop(Tail(questions), answers,
                 [totalScore    |-> RatAdd(acc.totalScore, g.points),
                  totalPoints   |-> RatAdd(acc.totalPoints, MaxPoints(Head(questions))),
                  gradedAnswers |-> Append(acc.gradedAnswers, g)])

autoGradeQuiz(questions, answers) ==
    GradeLoop(questions, answers,
        [totalScore |-> Num(0), totalPoints |-> Num(0), gradedAnswers |-> <<>>])

-----------------------------------------------------------------------------
(* Principals: req.user = {id, role}, decoded from the token by protect *)

Users == {"t1", "t2", "ad", "s1"}

Role(u) ==
    CASE u \in {"t1", "t2"} -> "teacher"
      [] u = "ad" -> "admin"
      [] OTHER -> "student"

\* authorize(...roles): roles.includes(req.user.role)
authorize(roles, u) == Role(u) \in roles

-----------------------------------------------------------------------------
(* Assignment documents *)

\* the ids the Assignment collection hands out
AssignmentIds == {1}

\* an id no Assignment has
UnknownId == Cardinality(AssignmentIds) + 1

\* _id of the i-th question sub-document made by the gen-th write of an assignment's
\* questions: a fresh ObjectId for every sub-document built from a plain object
Qid(aid, gen, i) == <<aid, gen, i>>

\* the map callback over the parsed questions, with the _id the schema adds
NormalizeQuestion(q, aid, gen, index) ==
    [id             |-> Qid(aid, gen, index),
     type           |-> IF q.type = "" THEN "multiple-choice" ELSE q.type,
     correctAnswer  |-> q.correctAnswer,
     correctAnswers |-> q.correctAnswers,
     points         |-> OrJs(q.points, Num(1))]

\* parsedQuestions.reduce((sum, q) => sum + (q.points || 1), sum)
RECURSIVE ReducePoints(_, _)
ReducePoints(parsed, sum) ==
    IF parsed = <<>> THEN sum
    ELSE ReducePoints(Tail(parsed), JsAdd(sum, OrJs(Head(parsed).points, Num(1))))

\* the question sub-document Mongoose makes of a normalized question
CastQuestion(q) == [q EXCEPT !.points = CastNumber(@)]

\* the parsed and normalized questions and their total, as the document stores them;
\* questions.kind: "none" (field absent), "bad" (JSON.parse throws) or "list"
NormalizeQuestions(questions, aid, gen) ==
    IF questions.kind = "list"
    THEN LET parsed == [i \in 1..Len(questions.items) |->
                            NormalizeQuestion(questions.items[i], aid, gen, i)]
         IN  [questions   |-> [i \in 1..Len(parsed) |-> CastQuestion(parsed[i])],
              totalPoints |-> CastNumber(ReducePoints(parsed, Num(0)))]
    ELSE [questions |-> <<>>, totalPoints |-> Num(0)]

\* questions.kind = "object": JSON that parses to an object without the required
\* question and type, which the schema refuses when the document is validated
RejectedBySchema(questions) == questions.kind = "object"

\* create: questions are parsed only for a quiz
ParseQuestions(type, questions, aid, gen) ==
    IF type = "quiz" /\ questions.kind # "none"
    THEN NormalizeQuestions(questions, aid, gen)
    ELSE [questions |-> <<>>, totalPoints |-> Num(0)]

\* a multipart boolean field: "undef" when the caller left it out
FlagOr(flag, default) == IF flag = "undef" THEN default ELSE flag = "true"

NewAssignment(body, caller, aid) ==
    LET p == ParseQuestions(body.type, body.questions, aid, 1)
    IN  [createdBy             |-> caller,
         type                  |-> body.type,
         questions             |-> p.questions,
         qgen                  |-> 1,
         totalPoints           |-> p.totalPoints,
         allowAutomaticGrading |-> FlagOr(body.allowAutomaticGrading, body.type = "quiz"),
         allowResubmission     |-> FlagOr(body.allowResubmission, FALSE),
         attachments           |-> <<>>]

-----------------------------------------------------------------------------
(* Submission documents *)

\* the fields AnswerSchema keeps of a submitted answer (type and fileIndex are not in
\* the schema and are dropped on save)
StoredAnswer(a) ==
    [questionId |-> a.questionId,
     answer     |-> a.answer,
     answers    |-> a.answers,
     files      |-> a.files,
     isCorrect  |-> a.isCorrect,
     points     |-> a.points,
     feedback   |-> "none"]

\* Submission.findOne({assignment, student}): position of the first match, 0 if none
FindSubmission(subs, aid, student) ==
    IF \E i \in 1..Len(subs) : subs[i].assignment = aid /\ subs[i].student = student
    THEN CHOOSE i \in 1..Len(subs) :
            /\ subs[i].assignment = aid /\ subs[i].student = student
            /\ \A j \in 1..(i - 1) : ~(subs[j].assignment = aid /\ subs[j].student = student)
    ELSE 0

\* the paths of a Submission holding arrays
ArrayPaths == {"answers", "files", "previousAnswers", "previousFiles"}

\* document.save() of a loaded document: Mongoose writes the paths whose value changed
\* since the load; when one of them is an array it requires the stored __v to be the
\* loaded one and increments it, and throws VersionError otherwise
MongooseSave(stored, loaded, edited) ==
    LET modified  == {f \in DOMAIN loaded \ {"v"} : loaded[f] # edited[f]}
        versioned == modified \cap ArrayPaths # {}
    IN  IF versioned /\ stored.v # loaded.v
        THEN [ok |-> FALSE, doc |-> stored]
        ELSE [ok  |-> TRUE,
              doc |-> [f \in DOMAIN stored |->
                          IF f \in modified THEN edited[f]
                          ELSE IF f = "v" /\ versioned THEN stored.v + 1
                          ELSE stored[f]]]

-----------------------------------------------------------------------------
(* POST /:id/submit *)

\* what the handler holds after its two reads: Assignment.findById and
\* Submission.findOne({assignment, student})
LoadSubmit(asgs, subs, aid, student) ==
    LET idx == FindSubmission(subs, aid, student)
    IN  [aid           |-> aid,
         student       |-> student,
         hasAssignment |-> aid \in 1..Len(asgs),
         assignment    |-> IF aid \in 1..Len(asgs) THEN asgs[aid] ELSE [none |-> TRUE],
         idx           |-> idx,
         existing      |-> IF idx > 0 THEN subs[idx] ELSE [none |-> TRUE]]

\* the check with the flag inverted
ResubmissionRejectedInverted(isResubmission, assignment) ==
    isResubmission /\ assignment.allowResubmission

\* isResubmission && !assignment.allowResubmission
ResubmissionRejected(isResubmission, assignment) ==
    isResubmission /\ ~assignment.allowResubmission

\* the loop over req.files: calls 1..Len(files) of uploadBufferToCloudinary; `fails` is
\* the set of calls of this request that reject
UploadFiles(files, cloud, fails) ==
    IF cloud /\ \E i \in 1..Len(files) : i \in fails
    THEN [ok |-> FALSE, saved |-> <<>>]
    ELSE [ok |-> TRUE, saved |-> files]

\* the loop over parsedAnswers: a file-upload answer whose fileIndex names a request
\* file gets that file; with Cloudinary the file is uploaded again and a rejected
\* upload is logged and skipped
AttachAnswerFiles(answers, files, cloud, fails) ==
    LET Eligible(a) == a.type = "file-upload" /\ a.fileIndex \in 1..Len(files)
        CallNo(i)   == Len(files) + Cardinality({j \in 1..i : Eligible(answers[j])})
        FilesOf(i)  ==
            IF Eligible(answers[i]) /\ (~cloud \/ CallNo(i) \notin fails)
            THEN <<files[answers[i].fileIndex]>>
            ELSE <<>>
    IN  [i \in 1..Len(answers) |->
            [questionId |-> answers[i].questionId,
             answer     |-> answers[i].answer,
             answers    |-> answers[i].answers,
             files      |-> FilesOf(i),
             isCorrect  |-> "unset",
             points     |-> NoNum]]

\* assignment.type === 'quiz' && assignment.allowAutomaticGrading && parsedAnswers.length > 0
ShouldAutoGrade(assignment, answers) ==
    assignment.type = "quiz" /\ assignment.allowAutomaticGrading /\ Len(answers) > 0

\* parsedAnswers.map(...): isCorrect and points of the graded record with the answer's
\* questionId (graded?.isCorrect, graded?.points || 0)
MergeGraded(answers, gradedAnswers) ==
    LET NoGraded == [isCorrect |-> "unset", points |-> NoNum]
        GradedOf(a) ==
            LET Matches(g) == a.questionId # NoId /\ g.questionId = a.questionId
            IN  FindFirst(gradedAnswers, Matches, NoGraded)
    IN  [i \in 1..Len(answers) |->
            [answers[i] EXCEPT !.isCorrect = GradedOf(answers[i]).isCorrect,
                               !.points = OrNum(GradedOf(answers[i]).points, Num(0))]]

\* the grading block: grade, totalPoints, autoGraded and the merged answers
GradeSubmission(assignment, reqAnswers, answers) ==
    IF ShouldAutoGrade(assignment, reqAnswers)
    THEN LET r == autoGradeQuiz(assignment.questions, reqAnswers)
         IN  [grade       |-> r.totalScore,
              totalPoints |-> r.totalPoints,
              autoGraded  |-> TRUE,
              answers     |-> MergeGraded(answers, r.gradedAnswers)]
    ELSE [grade       |-> NoNum,
          totalPoints |-> OrNum(assignment.totalPoints, Num(100)),
          autoGraded  |-> FALSE,
          answers     |-> answers]

\* the new document with isGraded left at the schema's default
FirstSubmissionUngraded(aid, student, content, files, g, t) ==
    [assignment       |-> aid,
     student          |-> student,
     content          |-> content,
     answers          |-> [i \in 1..Len(g.answers) |-> StoredAnswer(g.answers[i])],
     files            |-> files,
     grade            |-> g.grade,
     totalPoints      |-> g.totalPoints,
     feedback         |-> "none",
     isGraded         |-> FALSE,
     autoGraded       |-> g.autoGraded,
     submittedAt      |-> t,
     gradedAt         |-> 0,
     resubmitted      |-> FALSE,
     resubmittedAt    |-> 0,
     previousContent  |-> "none",
     previousAnswers  |-> <<>>,
     previousFiles    |-> <<>>,
     v                |-> 0]

\* Submission.create({...}): the new document, with the schema's defaults
FirstSubmission(aid, student, content, files, g, t) ==
    [assignment       |-> aid,
     student          |-> student,
     content          |-> content,
     answers          |-> [i \in 1..Len(g.answers) |-> StoredAnswer(g.answers[i])],
     files            |-> files,
     grade            |-> g.grade,
     totalPoints      |-> g.totalPoints,
     feedback         |-> "none",
     isGraded         |-> g.autoGraded,
     autoGraded       |-> g.autoGraded,
     submittedAt      |-> t,
     gradedAt         |-> 0,
     resubmitted      |-> FALSE,
     resubmittedAt    |-> 0,
     previousContent  |-> "none",
     previousAnswers  |-> <<>>,
     previousFiles    |-> <<>>,
     v                |-> 0]

\* the resubmission with the snapshot taken after the new values are set
ResubmissionSnapshotLate(existing, content, files, g, t) ==
    LET answers == [i \in 1..Len(g.answers) |-> StoredAnswer(g.answers[i])]
        moved == [existing EXCEPT
                    !.content         = content,
                    !.answers         = answers,
                    !.files           = files,
                    !.previousContent = content,
                    !.previousAnswers = answers,
                    !.previousFiles   = files,
                    !.submittedAt     = t,
                    !.resubmitted     = TRUE,
                    !.resubmittedAt   = t]
    IN  IF g.autoGraded
        THEN [moved EXCEPT !.grade = g.grade,
                           !.totalPoints = g.totalPoints,
                           !.isGraded = TRUE,
                           !.gradedAt = t]
        ELSE moved

\* the resubmission that takes the snapshot only when none was taken before
ResubmissionKeepsFirst(existing, content, files, g, t) ==
    LET keep  == existing.resubmitted
        moved == [existing EXCEPT
                    !.previousContent = IF keep THEN @ ELSE existing.content,
                    !.previousAnswers = IF keep THEN @ ELSE existing.answers,
                    !.previousFiles   = IF keep THEN @ ELSE existing.files,
                    !.content         = content,
                    !.answers         = [i \in 1..Len(g.answers) |-> StoredAnswer(g.answers[i])],
                    !.files           = files,
                    !.submittedAt     = t,
                    !.resubmitted     = TRUE,
                    !.resubmittedAt   = t]
    IN  IF g.autoGraded
        THEN [moved EXCEPT !.grade = g.grade,
                           !.totalPoints = g.totalPoints,
                           !.isGraded = TRUE,
                           !.gradedAt = t]
        ELSE moved

\* a resubmission that moves the attempt but leaves the resubmitted flag as it was
ResubmissionUnflagged(existing, content, files, g, t) ==
    LET moved == [existing EXCEPT
                    !.previousContent = existing.content,
                    !.previousAnswers = existing.answers,
                    !.previousFiles   = existing.files,
                    !.content         = content,
                    !.answers         = [i \in 1..Len(g.answers) |-> StoredAnswer(g.answers[i])],
                    !.files           = files,
                    !.submittedAt     = t,
                    !.resubmittedAt   = t]
    IN  IF g.autoGraded
        THEN [moved EXCEPT !.grade = g.grade,
                           !.totalPoints = g.totalPoints,
                           !.isGraded = TRUE,
                           !.gradedAt = t]
        ELSE moved

\* the assignments to existingSubmission on a resubmission
Resubmission(existing, content, files, g, t) ==
    LET moved == [existing EXCEPT
                    !.previousContent = existing.content,
                    !.previousAnswers = existing.answers,
                    !.previousFiles   = existing.files,
                    !.content         = content,
                    !.answers         = [i \in 1..Len(g.answers) |-> StoredAnswer(g.answers[i])],
                    !.files           = files,
                    !.submittedAt     = t,
                    !.resubmitted     = TRUE,
                    !.resubmittedAt   = t]
    IN  IF g.autoGraded
        THEN [moved EXCEPT !.grade = g.grade,
                           !.totalPoints = g.totalPoints,
                           !.isGraded = TRUE,
                           !.gradedAt = t]
        ELSE moved

\* AnswerSchema: questionId is required
ValidAnswers(answers) == \A i \in 1..Len(answers) : answers[i].questionId # NoId

\* the handler from its reads to the write it asks for:
\* write = "none", "create" (doc is the new document) or "save" (doc is the edited one)
SubmitHandler(ctx, body, cloud, fails, t) ==
    LET NoWrite(status) == [status |-> status, write |-> "none", doc |-> [none |-> TRUE]]
        isResubmission  == ctx.idx > 0
        up              == UploadFiles(body.files, cloud, fails)
        withFiles       == AttachAnswerFiles(body.answers, body.files, cloud, fails)
        g               == GradeSubmission(ctx.assignment, body.answers, withFiles)
    IN  IF ~ctx.hasAssignment THEN NoWrite(404)
        ELSE IF ResubmissionRejected(isResubmission, ctx.assignment) THEN NoWrite(400)
        ELSE IF ~up.ok THEN NoWrite(500)
        ELSE IF ~ValidAnswers(body.answers) THEN NoWrite(500)
        ELSE IF isResubmission
        THEN [status |-> 201, write |-> "save",
              doc |-> Resubmission(ctx.existing, body.content, up.saved, g, t)]
        ELSE [status |-> 201, write |-> "create",
              doc |-> FirstSubmission(ctx.aid, ctx.student, body.content, up.saved, g, t)]

\* the upload calls a request makes when none rejects: one per request file, then one
\* per file-upload answer whose fileIndex names a request file
UploadCallsOf(body) ==
    1..(Len(body.files)
        + Cardinality({i \in 1..Len(body.answers) :
              /\ body.answers[i].type = "file-upload"
              /\ body.answers[i].fileIndex \in 1..Len(body.files)}))

\* the upload calls the handler saw reject: none when it answered before the uploads;
\* the first rejected request file, which ends the handler; else the rejected answer
\* files
RejectedUploads(ctx, body, cloud, fails) ==
    IF ~cloud \/ ~ctx.hasAssignment THEN {}
    ELSE IF ResubmissionRejected(ctx.idx > 0, ctx.assignment) THEN {}
    ELSE IF fails \cap (1..Len(body.files)) # {}
    THEN {CHOOSE i \in fails \cap (1..Len(body.files)) :
              \A j \in fails \cap (1..Len(body.files)) : i <= j}
    ELSE fails \cap UploadCallsOf(body)

\* the write, against the collection as it is when the write runs; a rejected save is
\* caught by the handler's catch and answered 500
CommitSubmit(subs, atts, ctx, body, plan) ==
    LET payload == [content |-> body.content, answers |-> body.answers, files |-> body.files]
    IN  CASE plan.write = "create" ->
                [status |-> plan.status, wrote |-> TRUE,
                 subs |-> Append(subs, plan.doc),
                 atts |-> Append(atts, <<payload>>)]
          [] plan.write = "save" ->
                LET s == MongooseSave(subs[ctx.idx], ctx.existing, plan.doc)
                IN  IF s.ok
                    THEN [status |-> plan.status, wrote |-> TRUE,
                          subs |-> [subs EXCEPT ![ctx.idx] = s.doc],
                          atts |-> [atts EXCEPT ![ctx.idx] = Append(@, payload)]]
                    ELSE [status |-> 500, wrote |-> FALSE, subs |-> subs, atts |-> atts]
          [] OTHER -> [status |-> plan.status, wrote |-> FALSE, subs |-> subs, atts |-> atts]

\* one submit request handled without another request running in between
Submit(aid, student, body, fails) ==
    /\ now <= MaxClock
    /\ LET ctx  == LoadSubmit(assignments, submissions, aid, student)
           plan == SubmitHandler(ctx, body, hasCloudinary, fails, now)
           c    == CommitSubmit(submissions, attempts, ctx, body, plan)
       IN  /\ submissions' = c.subs
           /\ attempts' = c.atts
           /\ now' = IF c.wrote THEN now + 1 ELSE now
           /\ res' = [op |-> "submit", caller |-> student, status |-> c.status,
                      rejected |-> RejectedUploads(ctx, body, hasCloudinary, fails)]
    /\ UNCHANGED <<assignments, hasCloudinary, inflight, gIn, gOut, stats>>

-----------------------------------------------------------------------------
(* POST / : create an assignment *)

\* Assignment.create runs before the attachments are uploaded; a rejected upload
\* answers 500 and returns, leaving the document that was created
CreateAssignment(caller, body, fails) ==
    /\ Len(assignments) < Cardinality(AssignmentIds)
    /\ IF ~authorize({"teacher", "admin"}, caller)
       THEN /\ res' = [op |-> "create", caller |-> caller, status |-> 403, rejected |-> {}]
            /\ UNCHANGED assignments
       ELSE IF body.type = "quiz" /\ RejectedBySchema(body.questions)
       THEN /\ res' = [op |-> "create", caller |-> caller, status |-> 500, rejected |-> {}]
            /\ UNCHANGED assignments
       ELSE LET aid == Len(assignments) + 1
                doc == NewAssignment(body, caller, aid)
                up  == UploadFiles(body.files, hasCloudinary, fails)
            IN  /\ assignments' = Append(assignments,
                        IF up.ok THEN [doc EXCEPT !.attachments = up.saved] ELSE doc)
                /\ res' = [op |-> "create", caller |-> caller,
                           status |-> IF up.ok THEN 201 ELSE 500,
                           rejected |-> IF up.ok THEN {} ELSE fails \cap (1..Len(body.files))]
    /\ UNCHANGED <<submissions, attempts, now, hasCloudinary, inflight, gIn, gOut, stats>>

-----------------------------------------------------------------------------
(* PUT /:id : update an assignment *)

\* a caller allowed to edit whatever the assignment
MayEditAny(assignment, caller) == TRUE

\* the negation of the ownership test: the creator, or an admin
MayEdit(assignment, caller) ==
    assignment.createdBy = caller \/ Role(caller) = "admin"

\* the assignments to the loaded document, the attachments apart; body.type = "",
\* a flag "undef" and body.questions.kind = "none" stand for fields left out
PatchAssignment(assignment, body, aid) ==
    LET gen == assignment.qgen + 1
        p   == NormalizeQuestions(body.questions, aid, gen)
        top == [assignment EXCEPT
                    !.type = IF body.type # "" THEN body.type ELSE @,
                    !.allowAutomaticGrading = FlagOr(body.allowAutomaticGrading, @),
                    !.allowResubmission = FlagOr(body.allowResubmission, @)]
    IN  IF body.questions.kind # "none"
        THEN [top EXCEPT !.questions = p.questions,
                         !.qgen = gen,
                         !.totalPoints = p.totalPoints]
        ELSE top

\* a rejected attachment upload answers 500 before assignment.save()
updateAssignment(caller, aid, body, fails) ==
    /\ now <= MaxClock
    /\ LET Respond(status, rejected) ==
               [op |-> "update", caller |-> caller, status |-> status,
                rejected |-> rejected]
       IN  IF ~authorize({"teacher", "admin"}, caller)
           THEN /\ res' = Respond(403, {})
                /\ UNCHANGED <<assignments, now>>
           ELSE IF aid \notin 1..Len(assignments)
           THEN /\ res' = Respond(404, {})
                /\ UNCHANGED <<assignments, now>>
           ELSE IF ~MayEdit(assignments[aid], caller)
           THEN /\ res' = Respond(403, {})
                /\ UNCHANGED <<assignments, now>>
           ELSE LET edited == PatchAssignment(assignments[aid], body, aid)
                    up     == UploadFiles(body.files, hasCloudinary, fails)
                IN  IF ~up.ok
                    THEN /\ res' = Respond(500, fails \cap (1..Len(body.files)))
                         /\ UNCHANGED <<assignments, now>>
                    ELSE IF RejectedBySchema(body.questions)
                    THEN /\ res' = Respond(500, {})
                         /\ UNCHANGED <<assignments, now>>
                    ELSE /\ assignments' = [assignments EXCEPT ![aid] =
                                [edited EXCEPT !.attachments = @ \o up.saved]]
                         /\ now' = now + 1
                         /\ res' = Respond(200, {})
    /\ UNCHANGED <<submissions, attempts, hasCloudinary, inflight, gIn, gOut, stats>>

-----------------------------------------------------------------------------
(* PUT /:assignmentId/submissions/:submissionId/grade *)

\* a lookup by submissionId alone
FindForGradeById(subs, aid, sid) ==
    IF sid \in 1..Len(subs) THEN sid ELSE 0

\* Submission.findOne({_id: submissionId, assignment: assignmentId})
FindForGrade(subs, aid, sid) ==
    IF sid \in 1..Len(subs) /\ subs[sid].assignment = aid THEN sid ELSE 0

\* the answers.map callback: the override with the answer's questionId, if any
OverrideAnswer(answer, gradedAnswers) ==
    LET Matches(g) == g.questionId # NoId /\ g.questionId = answer.questionId
        graded == FindFirst(gradedAnswers, Matches, [none |-> TRUE])
    IN  IF \E i \in 1..Len(gradedAnswers) : Matches(gradedAnswers[i])
        THEN [answer EXCEPT
                !.points    = IF IsNum(graded.points) THEN graded.points ELSE @,
                !.feedback  = IF graded.feedback # "undef" THEN graded.feedback ELSE @,
                !.isCorrect = IF graded.isCorrect # "undef" THEN graded.isCorrect ELSE @]
        ELSE answer

\* a grade route that stores the overrides and leaves the total as it was
ManualGradeKeepsTotal(submission, assignment, body, t) ==
    LET top == [submission EXCEPT
                    !.grade    = IF IsNum(body.grade) THEN body.grade ELSE @,
                    !.feedback = IF body.feedback # "undef" THEN body.feedback ELSE @,
                    !.isGraded = TRUE,
                    !.gradedAt = t]
        answers == [i \in 1..Len(submission.answers) |->
                        OverrideAnswer(submission.answers[i], body.answers.items)]
    IN  IF body.answers.given /\ assignment.type = "quiz"
        THEN [top EXCEPT !.answers = answers]
        ELSE top

\* the assignments to the loaded submission; body.grade = NoNum, body.feedback = "undef"
\* and body.answers.given = FALSE stand for fields the caller left out
ManualGrade(submission, assignment, body, t) ==
    LET top == [submission EXCEPT
                    !.grade    = IF IsNum(body.grade) THEN body.grade ELSE @,
                    !.feedback = IF body.feedback # "undef" THEN body.feedback ELSE @,
                    !.isGraded = TRUE,
                    !.gradedAt = t]
        answers == [i \in 1..Len(submission.answers) |->
                        OverrideAnswer(submission.answers[i], body.answers.items)]
    IN  IF body.answers.given /\ assignment.type = "quiz"
        THEN [top EXCEPT !.answers = answers,
                         !.grade = IF IsNum(body.grade) THEN @ ELSE SumPoints(answers)]
        ELSE top

gradeManually(caller, aid, sid, body) ==
    /\ now <= MaxClock
    /\ LET idx == FindForGrade(submissions, aid, sid)
           Respond(status) ==
               [op |-> "grade", caller |-> caller, status |-> status, rejected |-> {}]
       IN  IF ~authorize({"teacher", "admin"}, caller)
           THEN /\ res' = Respond(403)
                /\ UNCHANGED <<submissions, now>>
           ELSE IF idx = 0
           THEN /\ res' = Respond(404)
                /\ UNCHANGED <<submissions, now>>
           ELSE LET loaded == submissions[idx]
                    edited == ManualGrade(loaded, assignments[loaded.assignment], body, now)
                    s      == MongooseSave(submissions[idx], loaded, edited)
                IN  /\ submissions' = [submissions EXCEPT ![idx] = s.doc]
                    /\ now' = now + 1
                    /\ res' = Respond(200)
    /\ UNCHANGED <<assignments, attempts, hasCloudinary, inflight, gIn, gOut, stats>>

-----------------------------------------------------------------------------
(* GET /:id/statistics *)

RatLt(x, y) == x.n * y.d < y.n * x.d

\* s.grade !== undefined && s.grade !== null
HasGrade(s) == IsNum(s.grade)

\* s.grade >= k: false for null and undefined
GradeAtLeast(s, k) == HasGrade(s) /\ RatLe(Num(k), s.grade)

\* s.grade < k: null compares as 0, the stored value of a submission without grade
GradeBelow(s, k) == IF HasGrade(s) THEN RatLt(s.grade, Num(k)) ELSE 0 < k

\* a bucket of everything below 70, the submissions without grade included
NeedsImprovementOrNone(s) == GradeBelow(s, 70)

NeedsImprovement(s) == GradeBelow(s, 70) /\ HasGrade(s)

\* Math.round(x * 100) / 100
RoundCents(x) == Rat((200 * x.n + x.d) \div (2 * x.d), 100)

\* the reduce over the submissions with a grade
RECURSIVE SumGrades(_)
SumGrades(subs) ==
    IF subs = <<>> THEN Num(0)
    ELSE LET rest == SumGrades(Tail(subs))
         IN  IF HasGrade(Head(subs))
             THEN RatAdd(OrNum(Head(subs).grade, Num(0)), rest)
             ELSE rest

\* sum / graded || 0 when there are submissions, 0 otherwise
Average(subs, graded) ==
    LET sum == SumGrades(subs)
    IN  IF Len(subs) > 0 /\ graded > 0 THEN Rat(sum.n, sum.d * graded) ELSE Num(0)

\* the data of the response
Statistics(subs) ==
    LET total    == Len(subs)
        graded   == CountIf(subs, HasGrade)
        Good(s)  == GradeAtLeast(s, 80) /\ GradeBelow(s, 90)
        Fair(s)  == GradeAtLeast(s, 70) /\ GradeBelow(s, 80)
        Best(s)  == GradeAtLeast(s, 90)
        None(s)  == ~HasGrade(s)
    IN  [total    |-> total,
         graded   |-> graded,
         ungraded |-> total - graded,
         average  |-> RoundCents(Average(subs, graded)),
         gradeDistribution |->
             [excellent        |-> CountIf(subs, Best),
              good             |-> CountIf(subs, Good),
              satisfactory     |-> CountIf(subs, Fair),
              needsImprovement |-> CountIf(subs, NeedsImprovement),
              ungraded         |-> CountIf(subs, None)],
         submissions |-> [i \in 1..Len(subs) |->
             [student |-> subs[i].student, grade |-> subs[i].grade,
              submittedAt |-> subs[i].submittedAt]]]

\* no statistics response has been sent
NoStats ==
    [total |-> 0, graded |-> 0, ungraded |-> 0, average |-> NoNum,
     gradeDistribution |->
         [excellent |-> 0, good |-> 0, satisfactory |-> 0, needsImprovement |-> 0,
          ungraded |-> 0],
     submissions |-> <<>>]

\* Submission.find({assignment: id})
SubmissionsFor(subs, aid) == SelectSeq(subs, LAMBDA s : s.assignment = aid)

listStatistics(caller, aid) ==
    /\ LET Respond(status) ==
               [op |-> "statistics", caller |-> caller, status |-> status,
                rejected |-> {}]
       IN  IF ~authorize({"teacher", "admin"}, caller)
           THEN res' = Respond(403) /\ stats' = NoStats
           ELSE IF aid \notin 1..Len(assignments)
           THEN res' = Respond(404) /\ stats' = NoStats
           ELSE /\ res' = Respond(200)
                /\ stats' = Statistics(SubmissionsFor(submissions, aid))
    /\ UNCHANGED <<assignments, submissions, attempts, now, hasCloudinary, inflight, gIn,
                   gOut>>

-----------------------------------------------------------------------------
(* Requests the model sends *)

\* the questions of the quiz the teachers create: a multiple-choice, an enumeration and
\* a file-upload question
QuizQuestions ==
    << [type |-> "multiple-choice", correctAnswer |-> <<"b">>, correctAnswers |-> <<>>,
        points |-> Num(5)],
       [type |-> "enumeration", correctAnswer |-> <<>>,
        correctAnswers |-> << <<"a">>, <<"b">> >>, points |-> Num(5)],
       [type |-> "file-upload", correctAnswer |-> <<>>, correctAnswers |-> <<>>,
        points |-> NoNum] >>

CreateBody(type, questions, resub) ==
    [type |-> type, questions |-> questions, allowAutomaticGrading |-> "undef",
     allowResubmission |-> resub, files |-> <<>>]

\* (caller, body) of the create requests
CreateRequests ==
    LET quiz == [kind |-> "list", items |-> QuizQuestions]
        none == [kind |-> "none", items |-> <<>>]
    IN  { [caller |-> "t1", body |-> CreateBody("quiz", quiz, "true")],
          [caller |-> "t1", body |-> CreateBody("quiz", quiz, "undef")],
          [caller |-> "t2", body |-> CreateBody("essay", none, "true")],
          [caller |-> "s1", body |-> CreateBody("quiz", quiz, "true")] }

Answer(qid, type, fileIndex, answer, answers) ==
    [questionId |-> qid, type |-> type, fileIndex |-> fileIndex, answer |-> answer,
     answers |-> answers]

\* both gradable questions answered correctly
RightAnswers(aid) ==
    << Answer(Qid(aid, 1, 1), "", 0, <<"B", " ">>, <<>>),
       Answer(Qid(aid, 1, 2), "", 0, <<>>, << <<"b">>, <<" ", "A">> >>) >>

\* the enumeration answered with one item three times, the file-upload question
\* answered with the request's first file
OddAnswers(aid) ==
    << Answer(Qid(aid, 1, 2), "", 0, <<>>, << <<"a">>, <<"a">>, <<"a">> >>),
       Answer(Qid(aid, 1, 3), "file-upload", 1, <<>>, <<>>) >>

\* the multiple-choice question answered correctly, the enumeration wrongly
HalfAnswers(aid) ==
    << Answer(Qid(aid, 1, 1), "", 0, <<"b">>, <<>>),
       Answer(Qid(aid, 1, 2), "", 0, <<>>, << <<"x">> >>) >>

SubmitBody(content, answers, files) ==
    [content |-> content, answers |-> answers, files |-> files]

\* (aid, student, body) of the submit requests
SubmitRequests ==
    { [aid |-> 1, student |-> "s1", body |-> SubmitBody("c1", <<>>, <<>>)],
      [aid |-> 1, student |-> "s1", body |-> SubmitBody("c2", RightAnswers(1), <<>>)],
      [aid |-> 1, student |-> "s1", body |-> SubmitBody("c1", OddAnswers(1), <<"f1">>)],
      [aid |-> 1, student |-> "s1", body |-> SubmitBody("c2", HalfAnswers(1), <<>>)],
      [aid |-> UnknownId, student |-> "s1", body |-> SubmitBody("c1", <<>>, <<>>)] }

\* the sets of upload calls of one request that may reject
FailSets(files) == IF hasCloudinary /\ files # <<>> THEN SUBSET {1, 2} ELSE {{}}

GradeBody(grade, feedback, given, items) ==
    [grade |-> grade, feedback |-> feedback, answers |-> [given |-> given, items |-> items]]

\* a per-answer override of the enumeration question's points
Override(aid, p) ==
    [questionId |-> Qid(aid, 1, 2), points |-> p, feedback |-> "undef", isCorrect |-> "undef"]

\* (caller, aid, sid, body) of the grade requests
GradeRequests ==
    LET top   == GradeBody(Num(8), "fb", FALSE, <<>>)
        per   == GradeBody(NoNum, "undef", TRUE, <<Override(1, Num(3))>>)
        both  == GradeBody(Num(8), "undef", TRUE, <<Override(1, Num(3))>>)
        R(c, a, i, b) == [caller |-> c, aid |-> a, sid |-> i, body |-> b]
    IN  { R("t1", 1, 1, top), R("t1", 1, 1, per), R("t1", 1, 1, both),
          R("t2", 1, 1, top), R("ad", 1, 1, per), R("s1", 1, 1, top),
          R("t1", UnknownId, 1, top), R("t1", 1, 2, top) }

-----------------------------------------------------------------------------
(* The service, one request at a time *)

\* no call of autoGradeQuiz has returned
NotCalled ==
    [called |-> FALSE,
     result |-> [totalScore |-> NoNum, totalPoints |-> NoNum, gradedAnswers |-> <<>>]]

NoResponse == [op |-> "none", caller |-> "none", status |-> 0, rejected |-> {}]

Init ==
    /\ assignments = <<>>
    /\ submissions = <<>>
    /\ attempts = <<>>
    /\ now = 1
    /\ res = NoResponse
    /\ hasCloudinary \in BOOLEAN
    /\ inflight = <<>>
    /\ gIn = [questions |-> <<>>, answers |-> <<>>]
    /\ gOut = NotCalled
    /\ stats = NoStats

DoCreate == \E r \in CreateRequests : CreateAssignment(r.caller, r.body, {})

DoSubmit ==
    \E r \in SubmitRequests :
        \E fails \in FailSets(r.body.files) : Submit(r.aid, r.student, r.body, fails)

DoGrade == \E r \in GradeRequests : gradeManually(r.caller, r.aid, r.sid, r.body)

Next == DoCreate \/ DoSubmit \/ DoGrade

Spec == Init /\ [][Next]_vars

-----------------------------------------------------------------------------
(* Properties of the submission service *)

\* the submissions stored for one (assignment, student) pair
SubmissionsOf(subs, aid, student) ==
    {i \in 1..Len(subs) : subs[i].assignment = aid /\ subs[i].student = student}

\* what the student sent in a stored answer list or in a request's answers
SentAnswers(answers) ==
    [i \in 1..Len(answers) |->
        [questionId |-> answers[i].questionId, answer |-> answers[i].answer,
         answers |-> answers[i].answers]]

\* C2: with allowResubmission = false, a submit of a pair that has no Submission and
\* whose uploads all succeed creates the pair's only Submission, and a submit of a pair
\* that has one answers 400 and leaves the collection as it was.
C2_SecondSubmitRejected ==
    [][\A r \in SubmitRequests : \A fails \in FailSets(r.body.files) :
          ( /\ r.aid \in 1..Len(assignments)
            /\ ~assignments[r.aid].allowResubmission
            /\ Submit(r.aid, r.student, r.body, fails) )
          => IF SubmissionsOf(submissions, r.aid, r.student) = {}
             THEN fails = {} =>
                    /\ res'.status = 201
                    /\ Cardinality(SubmissionsOf(submissions', r.aid, r.student)) = 1
             ELSE /\ res'.status = 400
                  /\ submissions' = submissions
                  /\ Cardinality(SubmissionsOf(submissions', r.aid, r.student)) = 1
      ]_vars

C2_Witness ==
    /\ res.op = "submit" /\ res.status = 400
    /\ Len(assignments) = 1 /\ ~assignments[1].allowResubmission
    /\ Cardinality(SubmissionsOf(submissions, 1, "s1")) = 1

\* the Submission a submit of (aid, student) has just written
Written(subs, aid, student) == subs[FindSubmission(subs, aid, student)]

\* C3: an accepted submit with at least one answer to a quiz with automatic grading
\* leaves grade = totalScore, totalPoints = the grader's totalPoints, autoGraded,
\* isGraded and a gradedAt, on a first submission and on a resubmission.
C3_AutoGradedFields ==
    [][\A r \in SubmitRequests : \A fails \in FailSets(r.body.files) :
          ( /\ r.aid \in 1..Len(assignments)
            /\ assignments[r.aid].type = "quiz"
            /\ assignments[r.aid].allowAutomaticGrading
            /\ Len(r.body.answers) > 0
            /\ Submit(r.aid, r.student, r.body, fails)
            /\ res'.status = 201 )
          => LET g == autoGradeQuiz(assignments[r.aid].questions, r.body.answers)
                 s == Written(submissions', r.aid, r.student)
             IN  /\ s.grade = g.totalScore
                 /\ s.totalPoints = g.totalPoints
                 /\ s.autoGraded
                 /\ s.isGraded
                 /\ s.gradedAt # 0
      ]_vars

\* C4: every stored Answer that references a Question of its assignment has
\* 0 <= points <= the Question's points.
C4_PointsWithinQuestion ==
    \A i \in 1..Len(submissions) : \A k \in 1..Len(submissions[i].answers) :
        LET a  == submissions[i].answers[k]
            qs == assignments[submissions[i].assignment].questions
        IN  \A j \in 1..Len(qs) :
                (qs[j].id = a.questionId /\ IsNum(a.points))
                => (RatLe(Num(0), a.points) /\ RatLe(a.points, qs[j].points))

\* C5: an accepted resubmission moves the stored content, answers and files into the
\* previous* fields, stores the request's content, answers and files, and sets
\* resubmitted with resubmittedAt and submittedAt at the time of the call.
C5_ResubmissionSnapshot ==
    [][\A r \in SubmitRequests : \A fails \in FailSets(r.body.files) :
          ( /\ r.aid \in 1..Len(assignments)
            /\ assignments[r.aid].allowResubmission
            /\ SubmissionsOf(submissions, r.aid, r.student) # {}
            /\ Submit(r.aid, r.student, r.body, fails)
            /\ res'.status = 201 )
          => LET old == Written(submissions, r.aid, r.student)
                 new == Written(submissions', r.aid, r.student)
             IN  /\ new.previousContent = old.content
                 /\ new.previousAnswers = old.answers
                 /\ new.previousFiles = old.files
                 /\ new.content = r.body.content
                 /\ SentAnswers(new.answers) = SentAnswers(r.body.answers)
                 /\ new.files = r.body.files
                 /\ new.resubmitted
                 /\ new.resubmittedAt = now
                 /\ new.submittedAt = now
                 /\ Len(submissions') = Len(submissions)
      ]_vars

C5_Witness ==
    /\ res.op = "submit" /\ res.status = 201
    /\ \E i \in 1..Len(submissions) :
          /\ submissions[i].resubmitted
          /\ submissions[i].resubmittedAt = now - 1
          /\ submissions[i].previousContent # submissions[i].content
          /\ submissions[i].previousAnswers # <<>>
          /\ submissions[i].previousAnswers # submissions[i].answers
          /\ submissions[i].previousFiles # submissions[i].files

\* C6: after n >= 2 accepted submits of a pair, content/answers/files are those of
\* attempt n and previousContent/previousAnswers/previousFiles those of attempt n-1,
\* whatever the attempts before them were; after one attempt the previous* fields are
\* empty.
C6_SingleDepthHistory ==
    \A i \in 1..Len(submissions) :
        LET s == submissions[i]
            h == attempts[i]
            n == Len(h)
        IN  /\ n >= 1
            /\ s.content = h[n].content
            /\ SentAnswers(s.answers) = SentAnswers(h[n].answers)
            /\ IF n >= 2
               THEN /\ s.previousContent = h[n - 1].content
                    /\ SentAnswers(s.previousAnswers) = SentAnswers(h[n - 1].answers)
                    /\ s.previousFiles = h[n - 1].files
               ELSE /\ s.previousContent = "none"
                    /\ s.previousAnswers = <<>>
                    /\ s.previousFiles = <<>>

C6_Witness ==
    \E i \in 1..Len(submissions) :
        /\ Len(attempts[i]) >= 3
        /\ attempts[i][1].content # attempts[i][2].content
        /\ attempts[i][1].answers # attempts[i][2].answers
        /\ submissions[i].previousContent = attempts[i][Len(attempts[i]) - 1].content
        /\ submissions[i].previousContent # attempts[i][1].content

\* C7: a grade request changes a Submission only when the caller created the
\* Submission's Assignment or is an admin.
C7_OnlyOwnerOrAdminGrades ==
    [][\A i \in 1..Len(submissions) :
          (res'.op = "grade" /\ submissions'[i] # submissions[i])
          => \/ Role(res'.caller) = "admin"
             \/ res'.caller = assignments[submissions[i].assignment].createdBy
      ]_vars

\* C8: a submit one of whose uploads rejects answers with an error and leaves the
\* Submission collection as it was.
C8_FailedUploadAborts ==
    [][(res'.op = "submit" /\ res'.rejected # {})
          => (res'.status >= 400 /\ submissions' = submissions)
      ]_vars

\* C9 as claimed: every accepted submit to a quiz with automatic grading leaves
\* isGraded = true.
C9_GradedWheneverAutomatic ==
    [][\A r \in SubmitRequests : \A fails \in FailSets(r.body.files) :
          ( /\ r.aid \in 1..Len(assignments)
            /\ assignments[r.aid].type = "quiz"
            /\ assignments[r.aid].allowAutomaticGrading
            /\ Submit(r.aid, r.student, r.body, fails)
            /\ res'.status = 201 )
          => Written(submissions', r.aid, r.student).isGraded
      ]_vars

\* C9 as amended: every accepted submit that carries at least one answer to a quiz with
\* automatic grading leaves isGraded = true.
C9_GradedWhenAnswered ==
    [][\A r \in SubmitRequests : \A fails \in FailSets(r.body.files) :
          ( /\ r.aid \in 1..Len(assignments)
            /\ assignments[r.aid].type = "quiz"
            /\ assignments[r.aid].allowAutomaticGrading
            /\ Len(r.body.answers) > 0
            /\ Submit(r.aid, r.student, r.body, fails)
            /\ res'.status = 201 )
          => Written(submissions', r.aid, r.student).isGraded
      ]_vars

C9_Witness ==
    /\ res.op = "submit" /\ res.status = 201
    /\ \E i \in 1..Len(submissions) :
          /\ assignments[submissions[i].assignment].type = "quiz"
          /\ assignments[submissions[i].assignment].allowAutomaticGrading
          /\ Len(attempts[i][Len(attempts[i])].answers) > 0
          /\ submissions[i].submittedAt = now - 1
          /\ submissions[i].isGraded

-----------------------------------------------------------------------------
(* The service with submit requests interleaved *)

\* a submit request runs up to its reads and is suspended.  Assignment.findById and
\* Submission.findOne are taken together: no request of this specification writes an
\* Assignment between them.
BeginSubmit(aid, student, body, fails) ==
    /\ now <= MaxClock
    /\ Len(inflight) < MaxInflight
    /\ inflight' = Append(inflight,
            [op    |-> "submit",
             ctx   |-> LoadSubmit(assignments, submissions, aid, student),
             body  |-> body,
             fails |-> fails])
    /\ UNCHANGED <<assignments, submissions, attempts, now, res, hasCloudinary, gIn, gOut, stats>>

\* a suspended submit request runs from its reads to its response: the writes of the
\* requests that finished since it was suspended are in the collection, not in what it
\* read
FinishSubmit(k) ==
    /\ now <= MaxClock
    /\ k \in 1..Len(inflight)
    /\ inflight[k].op = "submit"
    /\ LET p    == inflight[k]
           plan == SubmitHandler(p.ctx, p.body, hasCloudinary, p.fails, now)
           c    == CommitSubmit(submissions, attempts, p.ctx, p.body, plan)
       IN  /\ submissions' = c.subs
           /\ attempts' = c.atts
           /\ now' = IF c.wrote THEN now + 1 ELSE now
           /\ res' = [op |-> "submit", caller |-> p.ctx.student, status |-> c.status,
                      rejected |-> RejectedUploads(p.ctx, p.body, hasCloudinary, p.fails)]
    /\ inflight' = [i \in 1..(Len(inflight) - 1) |->
                        IF i < k THEN inflight[i] ELSE inflight[i + 1]]
    /\ UNCHANGED <<assignments, hasCloudinary, gIn, gOut, stats>>

\* the interleaved requests carry no files
ConcurrentRequests == {r \in SubmitRequests : r.body.files = <<>>}

DoBeginSubmit ==
    \E r \in ConcurrentRequests : BeginSubmit(r.aid, r.student, r.body, {})

DoFinishSubmit == \E k \in 1..Len(inflight) : FinishSubmit(k)

NextConc == DoCreate \/ DoBeginSubmit \/ DoFinishSubmit

SpecConc == Init /\ [][NextConc]_vars

\* C1: the collection holds at most one Submission for an (assignment, student) pair,
\* also when submit requests of the pair are interleaved (the request that loses the
\* race inserts nothing).
C1_OneSubmissionPerPair ==
    \A i, j \in 1..Len(submissions) :
        (submissions[i].assignment = submissions[j].assignment
           /\ submissions[i].student = submissions[j].student) => i = j

-----------------------------------------------------------------------------
(* The Auto-Grader called directly *)

EnumWords == {<<"a">>, <<"b">>, <<"c">>}

StudentWords == {<<"a">>, <<"B", " ">>, <<"c">>, <<"x">>}

\* one enumeration question, as an Assignment stores it
EnumQuestion(correctAnswers, points) ==
    [id |-> Qid(1, 1, 1), type |-> "enumeration", correctAnswer |-> <<>>,
     correctAnswers |-> correctAnswers, points |-> points]

\* the calls made: an enumeration question and one answer to it
GraderInputs ==
    { [questions |-> <<EnumQuestion(ca, p)>>,
       answers   |-> <<Answer(Qid(1, 1, 1), "", 0, <<>>, sa)>>] :
         ca \in SeqsUpTo(EnumWords, MaxEnum),
         sa \in SeqsUpTo(StudentWords, MaxEnum),
         p \in {Num(1), Num(3)} }

\* a stored question of the quiz graded directly
StoredQuestion(i, type, correctAnswer, correctAnswers, points) ==
    [id |-> Qid(1, 1, i), type |-> type, correctAnswer |-> correctAnswer,
     correctAnswers |-> correctAnswers, points |-> points]

\* the questions: multiple-choice, identification, essay, file-upload, enumeration
GradedQuestions ==
    << StoredQuestion(1, "multiple-choice", <<"b">>, <<>>, Num(5)),
       StoredQuestion(2, "identification", <<"a", "b">>, <<>>, Num(2)),
       StoredQuestion(3, "essay", <<>>, <<>>, Num(3)),
       StoredQuestion(4, "file-upload", <<>>, <<>>, Num(1)),
       StoredQuestion(5, "enumeration", <<>>, << <<"a">>, <<"b">> >>, Num(1)) >>

\* a question sent without correctAnswer, as create or update store it:
\* correctAnswer: q.correctAnswer || ''
BlankQuestion ==
    StoredQuestion(Len(GradedQuestions) + 1, "multiple-choice", <<>>, <<>>, Num(2))

\* the question lists of the assignments graded
QuestionLists ==
    LET q == GradedQuestions
    IN  { <<>>, <<q[1], q[2]>>, <<q[2], q[4]>>, <<q[3], q[5], q[1]>>, q,
          <<q[1], BlankQuestion>> }

\* the answers a request may carry: right and wrong ones, two for one question, one
\* without a questionId
AnswerPool ==
    { Answer(Qid(1, 1, 1), "", 0, <<"b">>, <<>>),
      Answer(Qid(1, 1, 1), "", 0, <<"c">>, <<>>),
      Answer(Qid(1, 1, 2), "", 0, <<"A", "b", " ">>, <<>>),
      Answer(Qid(1, 1, 2), "", 0, <<"x">>, <<>>),
      Answer(Qid(1, 1, 3), "", 0, <<"x">>, <<>>),
      Answer(Qid(1, 1, 5), "", 0, <<>>, << <<"a">>, <<"a">> >>),
      Answer(NoId, "", 0, <<"b">>, <<>>) }

\* the calls made on a whole quiz
QuizInputs ==
    { [questions |-> qs, answers |-> as] :
         qs \in QuestionLists, as \in SeqsUpTo(AnswerPool, MaxAnswers) }

InitGrade ==
    /\ assignments = <<>>
    /\ submissions = <<>>
    /\ attempts = <<>>
    /\ now = 1
    /\ res = NoResponse
    /\ hasCloudinary = FALSE
    /\ inflight = <<>>
    /\ gIn \in GraderInputs \cup QuizInputs
    /\ gOut = NotCalled
    /\ stats = NoStats

\* a grader that lower-cases and trims the answers in the list it is given
ArgumentsNormalized(questions, answers) ==
    [questions |-> questions,
     answers   |-> [i \in 1..Len(answers) |->
                       [answers[i] EXCEPT
                           !.answer  = Normalize(@),
                           !.answers = [k \in 1..Len(@) |-> Normalize(@[k])]]]]

\* the arguments as the call leaves them: the function assigns to neither, map and
\* filter build new arrays
ArgumentsAfter(questions, answers) ==
    [questions |-> questions, answers |-> answers]

GradeCall ==
    /\ ~gOut.called
    /\ gOut' = [called |-> TRUE, result |-> autoGradeQuiz(gIn.questions, gIn.answers)]
    /\ gIn' = ArgumentsAfter(gIn.questions, gIn.answers)
    /\ UNCHANGED <<assignments, submissions, attempts, now, res, hasCloudinary, inflight,
                   stats>>

\* the orders of a list of n elements
Orders(n) ==
    {f \in [1..n -> 1..n] : \A i, j \in 1..n : f[i] = f[j] => i = j}

\* the grader called again with the same answers in another order
GradePermuted ==
    /\ gOut.called
    /\ \E f \in Orders(Len(gIn.answers)) :
          LET answers == [i \in 1..Len(gIn.answers) |-> gIn.answers[f[i]]]
          IN  /\ gIn' = ArgumentsAfter(gIn.questions, answers)
              /\ gOut' = [called |-> TRUE,
                          result |-> autoGradeQuiz(gIn.questions, answers)]
    /\ UNCHANGED <<assignments, submissions, attempts, now, res, hasCloudinary, inflight, stats>>

NextGrade == GradeCall \/ GradePermuted

SpecGrade == InitGrade /\ [][NextGrade]_vars

\* the set of strings of a list after toLowerCase().trim()
NormalizedSet(words) == {Normalize(words[i]) : i \in 1..Len(words)}

\* C10: the grader marks an enumeration answer correct only if every correct answer is
\* among the student's answers and the student gave exactly as many answers as there
\* are correct ones; three distinct correct answers given in any order are marked
\* correct with the question's points.
C10_EnumerationExactMatch ==
    gOut.called =>
        \A i \in 1..Len(gIn.questions) :
            LET q       == gIn.questions[i]
                g       == gOut.result.gradedAnswers[i]
                student == FindAnswer(gIn.answers, q).answers
                correct == NormalizedSet(q.correctAnswers)
            IN  q.type = "enumeration" =>
                  /\ g.isCorrect = "true" =>
                        /\ correct \subseteq NormalizedSet(student)
                        /\ Len(student) = Len(q.correctAnswers)
                  /\ ( /\ Len(q.correctAnswers) = 3
                       /\ Cardinality(correct) = 3
                       /\ Len(student) = 3
                       /\ NormalizedSet(student) = correct )
                     => (g.isCorrect = "true" /\ g.points = q.points)

\* the student answers, by position, that are in the correct set after normalization
MatchingAnswers(student, correctAnswers) ==
    {i \in 1..Len(student) : Normalize(student[i]) \in NormalizedSet(correctAnswers)}

\* C11: for an enumeration question the grader awards
\* (correctCount / |correctAnswers|) * question.points, correctCount being the number of
\* student answers, duplicates counted each time, that are in the correct set after
\* lower-casing and trimming; it awards 0 and isCorrect = false when correctAnswers is
\* empty; correctAnswers [a,b,c] with answers [a,b] gives 2/3 of the points and
\* isCorrect = false.
C11_EnumerationPartialCredit ==
    gOut.called =>
        \A i \in 1..Len(gIn.questions) :
            LET q       == gIn.questions[i]
                g       == gOut.result.gradedAnswers[i]
                student == FindAnswer(gIn.answers, q).answers
                count   == Cardinality(MatchingAnswers(student, q.correctAnswers))
            IN  q.type = "enumeration" =>
                  /\ Len(q.correctAnswers) > 0 =>
                        g.points = Rat(count * q.points.n, Len(q.correctAnswers) * q.points.d)
                  /\ Len(q.correctAnswers) = 0 =>
                        (g.points = Num(0) /\ g.isCorrect = "false")
                  /\ (q.correctAnswers = <<<<"a">>, <<"b">>, <<"c">>>>
                        /\ student = <<<<"a">>, <<"B", " ">>>>)
                     => (g.points = Rat(2 * q.points.n, 3 * q.points.d)
                           /\ g.isCorrect = "false")

\* the grader has given 2/3 of three points for [a, "B "] against [a, b, c]
C11_Witness ==
    /\ gOut.called
    /\ Len(gIn.questions) = 1
    /\ gIn.questions[1].type = "enumeration"
    /\ gIn.questions[1].correctAnswers = <<<<"a">>, <<"b">>, <<"c">>>>
    /\ FindAnswer(gIn.answers, gIn.questions[1]).answers = <<<<"a">>, <<"B", " ">>>>
    /\ gOut.result.gradedAnswers[1].points = Num(2)
    /\ gOut.result.gradedAnswers[1].isCorrect = "false"

\* the sum of the points of a list of questions
QuestionPoints(questions) ==
    SumPoints([i \in 1..Len(questions) |-> [points |-> questions[i].points]])

\* C12: totalScore is the sum of the points of the gradedAnswers records, totalPoints
\* is the sum of the points of all questions, essay and file-upload questions
\* included, and gradedAnswers has exactly one record per question, with
\* maxPoints = the question's points.
C12_TotalsAreSums ==
    gOut.called =>
        LET r == gOut.result
        IN  /\ r.totalScore = SumPoints(r.gradedAnswers)
            /\ r.totalPoints = QuestionPoints(gIn.questions)
            /\ Len(r.gradedAnswers) = Len(gIn.questions)
            /\ \A i \in 1..Len(gIn.questions) :
                  /\ r.gradedAnswers[i].questionId = gIn.questions[i].id
                  /\ r.gradedAnswers[i].maxPoints = gIn.questions[i].points

\* the whole quiz graded, with points earned on several questions
C12_Witness ==
    /\ gOut.called
    /\ gIn.questions = GradedQuestions
    /\ gOut.result.totalPoints = Num(12)
    /\ gOut.result.totalScore = Num(8)
    /\ \E i \in 1..Len(gIn.questions) : gOut.result.gradedAnswers[i].isCorrect = "null"

\* C13: any permutation of the answers list gives the same totalScore, the same
\* totalPoints and the same isCorrect and points for each question.
C13_OrderIndependent ==
    [][(gOut.called /\ gOut'.called /\ gIn'.questions = gIn.questions)
          => /\ gOut'.result.totalScore = gOut.result.totalScore
             /\ gOut'.result.totalPoints = gOut.result.totalPoints
             /\ \A i \in 1..Len(gIn.questions) :
                   /\ gOut'.result.gradedAnswers[i].isCorrect
                         = gOut.result.gradedAnswers[i].isCorrect
                   /\ gOut'.result.gradedAnswers[i].points
                         = gOut.result.gradedAnswers[i].points
      ]_vars

\* C18: for a multiple-choice or identification question the grader sets
\* isCorrect = true and points = question.points exactly when the student's answer
\* equals question.correctAnswer after lower-casing and trimming ("Ab " matches
\* "ab"), and isCorrect = false with points = 0 otherwise.
C18_ExactMatchNormalized ==
    gOut.called =>
        \A i \in 1..Len(gIn.questions) :
            LET q       == gIn.questions[i]
                g       == gOut.result.gradedAnswers[i]
                student == FindAnswer(gIn.answers, q).answer
                same    == Trim(ToLowerCase(student)) = Trim(ToLowerCase(q.correctAnswer))
            IN  q.type \in {"multiple-choice", "identification"} =>
                  /\ same => (g.isCorrect = "true" /\ g.points = q.points)
                  /\ ~same => (g.isCorrect = "false" /\ g.points = Num(0))
                  /\ (student = <<"A", "b", " ">> /\ q.correctAnswer = <<"a", "b">>)
                        => g.isCorrect = "true"

\* "Ab " has been marked correct against "ab" and "c" wrong against "b"
C18_Witness ==
    /\ gOut.called
    /\ \E i, j \in 1..Len(gIn.questions) :
          /\ gIn.questions[i].type = "identification"
          /\ FindAnswer(gIn.answers, gIn.questions[i]).answer = <<"A", "b", " ">>
          /\ gOut.result.gradedAnswers[i].isCorrect = "true"
          /\ gOut.result.gradedAnswers[i].points = Num(2)
          /\ gIn.questions[j].type = "multiple-choice"
          /\ FindAnswer(gIn.answers, gIn.questions[j]).answer = <<"c">>
          /\ gOut.result.gradedAnswers[j].isCorrect = "false"
          /\ gOut.result.gradedAnswers[j].points = Num(0)

\* C19: for an essay or file-upload question the grader's record has
\* isCorrect = unknown and points = 0 whatever the student answered, and the question's
\* points still count in totalPoints.
C19_EssaysNotGraded ==
    gOut.called =>
        LET ungraded == {i \in 1..Len(gIn.questions) :
                            gIn.questions[i].type \in {"essay", "file-upload"}}
            others   == SelectSeq(gIn.questions,
                            LAMBDA q : q.type \notin {"essay", "file-upload"})
        IN  /\ \A i \in ungraded :
                  /\ gOut.result.gradedAnswers[i].isCorrect = "null"
                  /\ gOut.result.gradedAnswers[i].points = Num(0)
            /\ ungraded # {} =>
                  /\ gOut.result.totalPoints # QuestionPoints(others)
                  /\ RatLe(QuestionPoints(others), gOut.result.totalPoints)

\* an answered essay question has been left to the teacher
C19_Witness ==
    /\ gOut.called
    /\ \E i \in 1..Len(gIn.questions) :
          /\ gIn.questions[i].type = "essay"
          /\ FindAnswer(gIn.answers, gIn.questions[i]).answer = <<"x">>
          /\ gOut.result.gradedAnswers[i].isCorrect = "null"
          /\ gOut.result.gradedAnswers[i].points = Num(0)

\* the points an override list gives for a question, or the points it had
PointsAfter(answer, items) ==
    LET hits == {k \in 1..Len(items) :
                    items[k].questionId # NoId /\ items[k].questionId = answer.questionId}
        first == CHOOSE k \in hits : \A m \in hits : k <= m
    IN  IF hits = {} \/ ~IsNum(items[first].points) THEN answer.points
        ELSE items[first].points

\* C14: gradeManually with per-answer grades on a quiz Submission and no top-level
\* grade sets grade to the sum of the points of all stored Answers after the
\* overrides are applied by questionId (answers graded (5,0) with the second
\* overridden to 3 give grade 8); with a top-level grade as well, grade is the
\* supplied value and the overrides are still stored.
C14_PerAnswerGradeIsSum ==
    [][\A r \in GradeRequests :
          ( /\ gradeManually(r.caller, r.aid, r.sid, r.body)
            /\ res'.status = 200
            /\ r.body.answers.given
            /\ assignments[r.aid].type = "quiz" )
          => LET before == submissions[r.sid]
                 after  == submissions'[r.sid]
             IN  /\ Len(after.answers) = Len(before.answers)
                 /\ \A i \in 1..Len(after.answers) :
                       after.answers[i].points
                           = PointsAfter(before.answers[i], r.body.answers.items)
                 /\ after.grade = IF IsNum(r.body.grade) THEN r.body.grade
                                  ELSE SumPoints(after.answers)
      ]_vars

\* answers graded (5, 0) have had the second overridden to 3 and the grade is 8
C14_Witness ==
    /\ res.op = "grade"
    /\ res.status = 200
    /\ \E i \in 1..Len(submissions) :
          LET s == submissions[i]
          IN  /\ attempts[i][Len(attempts[i])].answers = HalfAnswers(s.assignment)
              /\ Len(s.answers) = 2
              /\ s.answers[1].points = Num(5)
              /\ s.answers[2].points = Num(3)
              /\ s.answers[2].isCorrect = "false"
              /\ s.grade = Num(8)
              /\ s.feedback # "fb"

-----------------------------------------------------------------------------
(* Assignment management: create and update *)

\* a quiz of one question
ShortQuiz ==
    << [type |-> "identification", correctAnswer |-> <<"a">>, correctAnswers |-> <<>>,
        points |-> Num(2)] >>

\* a quiz whose JSON gives the points as strings
TextPointsQuiz ==
    << [type |-> "multiple-choice", correctAnswer |-> <<"b">>, correctAnswers |-> <<>>,
        points |-> Str(<<"5">>)],
       [type |-> "", correctAnswer |-> <<"a">>, correctAnswers |-> <<>>,
        points |-> Str(<<"5">>)] >>

UpdateBody(type, questions, auto, resub, files) ==
    [type |-> type, questions |-> questions, allowAutomaticGrading |-> auto,
     allowResubmission |-> resub, files |-> files]

\* (caller, aid, body) of the update requests
UpdateRequests ==
    LET none == [kind |-> "none", items |-> <<>>]
        bad  == [kind |-> "bad", items |-> <<>>]
        List(items) == [kind |-> "list", items |-> items]
        R(c, a, b) == [caller |-> c, aid |-> a, body |-> b]
    IN  { R("t1", 1, UpdateBody("", List(ShortQuiz), "undef", "undef", <<>>)),
          R("t1", 1, UpdateBody("", List(TextPointsQuiz), "undef", "undef", <<>>)),
          R("t1", 1, UpdateBody("", bad, "undef", "undef", <<>>)),
          R("t1", 1, UpdateBody("", [kind |-> "object", items |-> <<>>], "undef", "undef",
                                <<>>)),
          R("t1", 1, UpdateBody("essay", none, "false", "undef", <<>>)),
          R("t1", 1, UpdateBody("", none, "undef", "undef", <<"f1">>)),
          R("t2", 1, UpdateBody("", List(QuizQuestions), "undef", "undef", <<>>)),
          R("ad", 1, UpdateBody("", none, "undef", "false", <<>>)),
          R("s1", 1, UpdateBody("", List(ShortQuiz), "undef", "undef", <<>>)),
          R("t1", UnknownId, UpdateBody("", List(ShortQuiz), "undef", "undef", <<>>)) }

DoUpdate ==
    \E r \in UpdateRequests : \E fails \in FailSets(r.body.files) :
        updateAssignment(r.caller, r.aid, r.body, fails)

\* (caller, body) of the create requests with a payload that is not a list, and
\* with an attachment
OddCreateRequests ==
    LET quiz == [kind |-> "list", items |-> QuizQuestions]
    IN  { [caller |-> "t1",
           body |-> CreateBody("quiz", [kind |-> "bad", items |-> <<>>], "undef")],
          [caller |-> "t1",
           body |-> CreateBody("quiz", [kind |-> "object", items |-> <<>>], "undef")],
          [caller |-> "t1",
           body |-> [CreateBody("quiz", quiz, "undef") EXCEPT !.files = <<"f1">>]] }

DoCreateAny ==
    \E r \in CreateRequests \cup OddCreateRequests :
        \E fails \in FailSets(r.body.files) : CreateAssignment(r.caller, r.body, fails)

NextAssign == DoCreateAny \/ DoUpdate

SpecAssign == Init /\ [][NextAssign]_vars

\* C15: in every reachable state after any sequence of create and update operations,
\* Assignment.totalPoints is the sum of the points of the questions stored in it.
C15_TotalPointsIsSum ==
    \A i \in 1..Len(assignments) :
        assignments[i].totalPoints = QuestionPoints(assignments[i].questions)

\* C16: update answers NotFound when the id does not exist and Forbidden when the
\* caller is neither the teacher who created the assignment nor an admin; in both
\* cases the stored Assignment is left unchanged.
C16_UpdateRefused ==
    [][\A r \in UpdateRequests : \A fails \in FailSets(r.body.files) :
          updateAssignment(r.caller, r.aid, r.body, fails)
          => LET known == r.aid \in 1..Len(assignments)
                 owner == known /\ assignments[r.aid].createdBy = r.caller
             IN  /\ (~known /\ Role(r.caller) \in {"teacher", "admin"})
                       => res'.status = 404
                 /\ (known /\ ~owner /\ Role(r.caller) # "admin")
                       => res'.status = 403
                 /\ (~known \/ (~owner /\ Role(r.caller) # "admin"))
                       => (res'.status \in {403, 404} /\ assignments' = assignments)
      ]_vars

\* a teacher who did not create the assignment has been refused
C16_Witness ==
    /\ res = [op |-> "update", caller |-> "t2", status |-> 403, rejected |-> {}]
    /\ Len(assignments) = 1
    /\ assignments[1].createdBy = "t1"
    /\ assignments[1].questions # <<>>

\* C17: gradeManually answers NotFound, and leaves every stored Submission unchanged,
\* when no Submission has the given submissionId or when that Submission belongs to
\* another assignment than the given assignmentId; otherwise it sets isGraded = true
\* and gradedAt.
C17_GradeNotFound ==
    [][\A r \in GradeRequests :
          ( /\ gradeManually(r.caller, r.aid, r.sid, r.body)
            /\ authorize({"teacher", "admin"}, r.caller) )
          => IF \/ r.sid \notin 1..Len(submissions)
                \/ submissions[r.sid].assignment # r.aid
             THEN /\ res'.status = 404
                  /\ submissions' = submissions
             ELSE /\ res'.status = 200
                  /\ submissions'[r.sid].isGraded
                  /\ submissions'[r.sid].gradedAt = now
      ]_vars

\* a grade request has been answered NotFound while a submission is stored
C17_Witness ==
    /\ res = [op |-> "grade", caller |-> "t1", status |-> 404, rejected |-> {}]
    /\ Len(submissions) = 1
    /\ ~submissions[1].isGraded

-----------------------------------------------------------------------------
(* Statistics of an assignment with submissions of several students *)

\* the grade requests that bring a submission to the states read: none, feedback
\* alone, and grades around the bucket limits
GradeOptions ==
    << GradeBody(NoNum, "fb", FALSE, <<>>), GradeBody(Num(0), "undef", FALSE, <<>>),
       GradeBody(Num(60), "undef", FALSE, <<>>), GradeBody(Rat(139, 2), "undef", FALSE, <<>>),
       GradeBody(Num(70), "undef", FALSE, <<>>), GradeBody(Num(71), "undef", FALSE, <<>>),
       GradeBody(Num(80), "undef", FALSE, <<>>), GradeBody(Num(82), "undef", FALSE, <<>>),
       GradeBody(Num(90), "undef", FALSE, <<>>), GradeBody(Num(95), "undef", FALSE, <<>>) >>

\* the assignment whose statistics are read
StatAssignment ==
    NewAssignment(CreateBody("essay", [kind |-> "none", items |-> <<>>], "true"), "t1", 1)

\* the students who submit
Student(i) == <<"s1", "s2", "s3", "s4", "s5", "s6">>[i]

\* the submission of the i-th student to assignment 1, left as submitted (option 0)
\* or graded by the option-th grade request
GradedSubmission(i, option) ==
    LET g == [answers |-> <<>>, grade |-> NoNum, totalPoints |-> Num(100),
              autoGraded |-> FALSE]
        s == FirstSubmission(1, Student(i), "c1", <<>>, g, 1)
    IN  IF option = 0 THEN s
        ELSE ManualGrade(s, StatAssignment, GradeOptions[option], 2)

\* the collections after some students have submitted and some have been graded; as
\* the statistics do not depend on the order, the options are taken in ascending order
StatCollections ==
    LET Ascending(f) == \A i \in DOMAIN f : (i + 1) \in DOMAIN f => f[i] <= f[i + 1]
        choices == UNION {{f \in [1..m -> 0..Len(GradeOptions)] : Ascending(f)} :
                              m \in 0..MaxSubs}
    IN  { [i \in DOMAIN f |-> GradedSubmission(i, f[i])] : f \in choices }

InitStats ==
    /\ assignments = <<StatAssignment>>
    /\ submissions \in StatCollections
    /\ attempts = [i \in 1..Len(submissions) |-> <<>>]
    /\ now = 3
    /\ res = NoResponse
    /\ hasCloudinary = FALSE
    /\ inflight = <<>>
    /\ gIn = [questions |-> <<>>, answers |-> <<>>]
    /\ gOut = NotCalled
    /\ stats = NoStats

\* (caller, aid) of the statistics requests
StatRequests ==
    { [caller |-> "t1", aid |-> 1], [caller |-> "t2", aid |-> 1],
      [caller |-> "s1", aid |-> 1], [caller |-> "t1", aid |-> UnknownId] }

DoStatistics == \E r \in StatRequests : listStatistics(r.caller, r.aid)

NextStats == DoStatistics

SpecStats == InitStats /\ [][NextStats]_vars

\* the bucket the raw grade of a submission belongs to; a submission is graded when
\* its grade is set
Bucket(s) ==
    CASE ~IsNum(s.grade) -> "ungraded"
      [] IsNum(s.grade) /\ RatLe(Num(90), s.grade) -> "excellent"
      [] IsNum(s.grade) /\ RatLe(Num(80), s.grade) /\ ~RatLe(Num(90), s.grade) -> "good"
      [] IsNum(s.grade) /\ RatLe(Num(70), s.grade) /\ ~RatLe(Num(80), s.grade)
            -> "satisfactory"
      [] OTHER -> "needsImprovement"

\* C20: listStatistics puts every submission of the assignment in exactly one bucket
\* by raw grade (excellent >= 90, good [80, 90), satisfactory [70, 80),
\* needsImprovement graded and < 70, ungraded not graded); the five counts sum to
\* total, and graded + ungraded = total.
C20_BucketsPartition ==
    (res.op = "statistics" /\ res.status = 200) =>
        LET subs == SubmissionsFor(submissions, 1)
            d    == stats.gradeDistribution
            In(b) == Cardinality({i \in 1..Len(subs) : Bucket(subs[i]) = b})
        IN  /\ d.excellent = In("excellent")
            /\ d.good = In("good")
            /\ d.satisfactory = In("satisfactory")
            /\ d.needsImprovement = In("needsImprovement")
            /\ d.ungraded = In("ungraded")
            /\ stats.total = Len(subs)
            /\ d.excellent + d.good + d.satisfactory + d.needsImprovement + d.ungraded
                  = stats.total
            /\ stats.graded + stats.ungraded = stats.total
            /\ stats.ungraded = d.ungraded

\* the statistics of submissions graded 60, 71, 82, 95 and one not graded
C20_Witness ==
    /\ res.op = "statistics"
    /\ res.status = 200
    /\ {submissions[i].grade : i \in 1..Len(submissions)}
          = {NoNum, Num(60), Num(71), Num(82), Num(95)}
    /\ stats.total = 5
    /\ stats.graded = 4
    /\ stats.gradeDistribution =
          [excellent |-> 1, good |-> 1, satisfactory |-> 1, needsImprovement |-> 1,
           ungraded |-> 1]

\* the submissions a teacher has graded
GradedOnes(subs) == SelectSeq(subs, LAMBDA s : s.isGraded)

\* C21: listStatistics returns average = the arithmetic mean of grade over the
\* submissions with isGraded = true, and 0 when no submission is graded, the
\* assignment without submissions included. (Stated for the collections in which every
\* graded submission has a grade, where that mean is defined.)
C21_AverageIsMean ==
    (res.op = "statistics" /\ res.status = 200) =>
        LET subs   == SubmissionsFor(submissions, 1)
            graded == GradedOnes(subs)
            sum    == SumPoints([i \in 1..Len(graded) |-> [points |-> graded[i].grade]])
        IN  /\ graded = <<>> => stats.average = Num(0)
            /\ (graded # <<>> /\ \A i \in 1..Len(graded) : IsNum(graded[i].grade))
                  => stats.average = Rat(sum.n, sum.d * Len(graded))

\* a questions payload that is not a well-formed list
NotAList(questions) == questions.kind \in {"bad", "object"}

\* C22: create and update given a questions payload that is not a well-formed list
\* (unparseable JSON, or JSON that parses to a non-list value) do not fail: the
\* request succeeds and the Assignment is stored with an empty question list and
\* totalPoints = 0.
C22_MalformedQuestionsEmptied ==
    [][/\ \A r \in CreateRequests \cup OddCreateRequests :
            \A fails \in FailSets(r.body.files) :
              ( /\ CreateAssignment(r.caller, r.body, fails)
                /\ r.body.type = "quiz"
                /\ NotAList(r.body.questions)
                /\ fails = {} )
              => /\ res'.status = 201
                 /\ Len(assignments') = Len(assignments) + 1
                 /\ assignments'[Len(assignments')].questions = <<>>
                 /\ assignments'[Len(assignments')].totalPoints = Num(0)
       /\ \A r \in UpdateRequests : \A fails \in FailSets(r.body.files) :
              ( /\ updateAssignment(r.caller, r.aid, r.body, fails)
                /\ r.aid \in 1..Len(assignments)
                /\ MayEdit(assignments[r.aid], r.caller)
                /\ NotAList(r.body.questions)
                /\ fails = {} )
              => /\ res'.status = 200
                 /\ assignments'[r.aid].questions = <<>>
                 /\ assignments'[r.aid].totalPoints = Num(0)
      ]_vars

\* C29: if an attachment upload fails during create or update, the request ends
\* with an error and the stored Assignments are unchanged.
C29_FailedAttachmentStoresNothing ==
    [][(res'.op \in {"create", "update"} /\ res'.rejected # {})
          => (res'.status >= 400 /\ assignments' = assignments)
      ]_vars

-----------------------------------------------------------------------------
(* Submit and grade requests interleaved *)

\* a grade request runs up to its read, Submission.findOne(...).populate('assignment'),
\* and is suspended
BeginGrade(caller, aid, sid, body) ==
    /\ now <= MaxClock
    /\ Len(inflight) < MaxInflight
    /\ LET idx == FindForGrade(submissions, aid, sid)
       IN  inflight' = Append(inflight,
               [op         |-> "grade",
                caller     |-> caller,
                body       |-> body,
                idx        |-> idx,
                loaded     |-> IF idx = 0 THEN [none |-> TRUE] ELSE submissions[idx],
                assignment |-> IF idx = 0 THEN [none |-> TRUE]
                               ELSE assignments[submissions[idx].assignment]])
    /\ UNCHANGED <<assignments, submissions, attempts, now, res, hasCloudinary, gIn, gOut,
                   stats>>

\* a suspended grade request runs from its read to its response; save() throws
\* VersionError into the catch, which answers 500
FinishGrade(k) ==
    /\ now <= MaxClock
    /\ k \in 1..Len(inflight)
    /\ inflight[k].op = "grade"
    /\ LET p == inflight[k]
           Respond(status) ==
               [op |-> "grade", caller |-> p.caller, status |-> status, rejected |-> {}]
       IN  IF ~authorize({"teacher", "admin"}, p.caller)
           THEN /\ res' = Respond(403)
                /\ UNCHANGED <<submissions, now>>
           ELSE IF p.idx = 0
           THEN /\ res' = Respond(404)
                /\ UNCHANGED <<submissions, now>>
           ELSE LET edited == ManualGrade(p.loaded, p.assignment, p.body, now)
                    s      == MongooseSave(submissions[p.idx], p.loaded, edited)
                IN  IF s.ok
                    THEN /\ submissions' = [submissions EXCEPT ![p.idx] = s.doc]
                         /\ now' = now + 1
                         /\ res' = Respond(200)
                    ELSE /\ res' = Respond(500)
                         /\ UNCHANGED <<submissions, now>>
    /\ inflight' = [i \in 1..(Len(inflight) - 1) |->
                        IF i < k THEN inflight[i] ELSE inflight[i + 1]]
    /\ UNCHANGED <<assignments, attempts, hasCloudinary, gIn, gOut, stats>>

\* the interleaved grade requests: the owner's, with a grade, with per-answer points,
\* with both, and for a submission that does not exist
RaceGradeRequests ==
    {r \in GradeRequests : r.caller = "t1" /\ r.aid = 1}

DoBeginGrade ==
    \E r \in RaceGradeRequests : BeginGrade(r.caller, r.aid, r.sid, r.body)

DoFinishGrade == \E k \in 1..Len(inflight) : FinishGrade(k)

\* the interleaved submit requests: a first attempt without answers and a
\* resubmission that answers the quiz
RaceSubmitRequests ==
    {r \in ConcurrentRequests : r.aid = 1 /\ r.body.answers \in {<<>>, RightAnswers(1)}}

DoRaceSubmit ==
    \E r \in RaceSubmitRequests : BeginSubmit(r.aid, r.student, r.body, {})

NextRace == DoCreate \/ DoRaceSubmit \/ DoFinishSubmit \/ DoBeginGrade \/ DoFinishGrade

SpecRace == Init /\ [][NextRace]_vars

\* C24: when a resubmission and a gradeManually call on one Submission are
\* interleaved, the teacher's write leaves the answers of the newest accepted attempt
\* stored, and a grade it computes from the answers is the sum of the points of the
\* answers that are stored.
C24_GradeRaceKeepsNewerAttempt ==
    [][\A k \in 1..Len(inflight) :
          (FinishGrade(k) /\ res'.status = 200)
          => LET p     == inflight[k]
                 after == submissions'[p.idx]
                 h     == attempts[p.idx]
             IN  /\ SentAnswers(after.answers) = SentAnswers(h[Len(h)].answers)
                 /\ ( /\ p.body.answers.given
                      /\ ~IsNum(p.body.grade)
                      /\ p.assignment.type = "quiz" )
                    => after.grade = SumPoints(after.answers)
      ]_vars

\* C25: a grade is never carried over to a new attempt: an accepted resubmission that
\* the Auto-Grader grades is left graded with the score of its own answers, and one
\* that is not auto-graded is left with no grade, isGraded = false and no gradedAt.
C25_GradeNotCarriedOver ==
    [][\A r \in SubmitRequests : \A fails \in FailSets(r.body.files) :
          ( /\ r.aid \in 1..Len(assignments)
            /\ FindSubmission(submissions, r.aid, r.student) # 0
            /\ Submit(r.aid, r.student, r.body, fails)
            /\ res'.status = 201 )
          => LET after == Written(submissions', r.aid, r.student)
                 a     == assignments[r.aid]
             IN  IF ShouldAutoGrade(a, r.body.answers)
                 THEN /\ after.isGraded
                      /\ after.grade = autoGradeQuiz(a.questions, r.body.answers).totalScore
                 ELSE /\ ~after.isGraded
                      /\ after.grade = NoNum
                      /\ after.gradedAt = 0
      ]_vars

\* C26: in every reachable state, after any sequence of submit, resubmit and
\* gradeManually, a Submission has isGraded = true exactly when its grade is not null.
C26_GradedIffHasGrade ==
    \A i \in 1..Len(submissions) : submissions[i].isGraded <=> IsNum(submissions[i].grade)

-----------------------------------------------------------------------------
(* Submits with unusual answer lists *)

\* two answers for the multiple-choice question, the first right, the second wrong
TwiceAnswers(aid) ==
    << Answer(Qid(aid, 1, 1), "", 0, <<"b">>, <<>>),
       Answer(Qid(aid, 1, 1), "", 0, <<"c">>, <<>>) >>

\* the multiple-choice question answered correctly and an answer whose questionId is
\* the _id of no question of the assignment
StrayAnswers(aid) ==
    << Answer(Qid(aid, 1, 1), "", 0, <<"b">>, <<>>),
       Answer(Qid(aid, 1, Len(QuizQuestions) + 1), "", 0, <<"b">>, <<>>) >>

MergeRequests ==
    SubmitRequests \cup
    { [aid |-> 1, student |-> "s1", body |-> SubmitBody("c1", TwiceAnswers(1), <<>>)],
      [aid |-> 1, student |-> "s1", body |-> SubmitBody("c2", StrayAnswers(1), <<>>)] }

DoSubmitAny ==
    \E r \in MergeRequests :
        \E fails \in FailSets(r.body.files) : Submit(r.aid, r.student, r.body, fails)

NextMerge == DoCreate \/ DoSubmitAny

SpecMerge == Init /\ [][NextMerge]_vars

\* C27: after an accepted submit that runs the Auto-Grader, the stored grade is the sum
\* of the points of the Answers stored in the Submission, also when the list holds
\* several answers for one questionId or an answer whose questionId matches no question.
C27_GradeIsSumOfStoredPoints ==
    [][\A r \in MergeRequests : \A fails \in FailSets(r.body.files) :
          ( /\ r.aid \in 1..Len(assignments)
            /\ ShouldAutoGrade(assignments[r.aid], r.body.answers)
            /\ Submit(r.aid, r.student, r.body, fails)
            /\ res'.status = 201 )
          => LET after == Written(submissions', r.aid, r.student)
             IN  after.grade = SumPoints(after.answers)
      ]_vars

\* C28: the Auto-Grader awards 0 points and never isCorrect = true for a
\* multiple-choice, identification or enumeration question that has no Answer with its
\* questionId, also when the question was stored with the default empty correctAnswer.
C28_UnansweredEarnsNothing ==
    gOut.called =>
        \A i \in 1..Len(gIn.questions) :
            LET q == gIn.questions[i]
                g == gOut.result.gradedAnswers[i]
            IN  ( /\ q.type \in {"multiple-choice", "identification", "enumeration"}
                  /\ FindAnswer(gIn.answers, q) = NoAnswer )
                => (g.points = Num(0) /\ g.isCorrect # "true")

\* C30: in every reachable state a Submission with resubmitted = false has no
\* previousContent, previousAnswers or previousFiles and no resubmittedAt; and no
\* later submit or gradeManually turns resubmitted from true back to false.
C30_ResubmittedFlag ==
    /\ [](\A i \in 1..Len(submissions) :
            ~submissions[i].resubmitted
            => /\ submissions[i].previousContent = "none"
               /\ submissions[i].previousAnswers = <<>>
               /\ submissions[i].previousFiles = <<>>
               /\ submissions[i].resubmittedAt = 0)
    /\ [][\A i \in 1..Len(submissions) :
            submissions[i].resubmitted
            => (i <= Len(submissions') /\ submissions'[i].resubmitted)]_vars

\* a resubmitted Submission has been graded by a teacher after the resubmission and
\* still carries the flag and the earlier attempt
C30_Witness ==
    \E i \in 1..Len(submissions) :
        /\ Len(attempts[i]) >= 2
        /\ submissions[i].resubmitted
        /\ submissions[i].resubmittedAt # 0
        /\ submissions[i].gradedAt > submissions[i].resubmittedAt
        /\ submissions[i].previousContent = attempts[i][Len(attempts[i]) - 1].content

=============================================================================
